---- MODULE Spec2Model ----
(***************************************************************************)
(* Family / Believer relationship integrity of the church membership       *)
(* backend: the request handlers of family.controller.js and               *)
(* believer.controller.js over the two Mongoose collections Family and     *)
(* Believer.  Every handler is one atomic action (one request at a time).  *)
(*                                                                         *)
(* Abstractions:                                                           *)
(*  - ObjectIds are positive integers handed out in order; 0 is null.      *)
(*  - a Believer's dob is kept as the age calcAge derives from it.         *)
(*  - a Believer's fullName is its id; spouseName 0 is absent, ExtName a   *)
(*    free text that names no stored Believer.                             *)
(*  - educationLevel "none" is an absent or null educationLevel, "" the    *)
(*    empty string a form sends; baptizedDate 0 is absent or null.         *)
(*  - a Date is a positive integer and 0 an absent / null date; every      *)
(*    `new Date()` reads a time later than every date in the store.        *)
(*  - the familyCode FAM-000n is the integer n; 0 is null / absent.        *)
(*  - the unique sparse index on familyCode rejects a second document      *)
(*    with the same non-null code and admits any number of null codes, as  *)
(*    the schema's comments state it.                                      *)
(*  - a handler runs as one step, except in SpecRace, where the family     *)
(*    handlers are cut at their awaits and `pending` holds what each       *)
(*    request in flight has read.                                          *)
(*  - createFamily reads `district`, a name its destructuring of req.body   *)
(*    never binds.  districtBound = FALSE is the handler as it stands: the  *)
(*    read throws and the request ends 500.  districtBound = TRUE is a      *)
(*    process in which the name resolves to the district sent, the only    *)
(*    way a Family enters the store.                                       *)
(***************************************************************************)
EXTENDS Integers, FiniteSets, TLC

VARIABLES
    fams,          \* Family collection: id -> document
    bels,          \* Believer collection: id -> document
    nextFamId,     \* next fresh Family _id
    nextBelId,     \* next fresh Believer _id
    resp,          \* the response to the last request
    districtBound, \* whether the name `district` resolves inside createFamily
    pending        \* requests in flight between two awaits: slot -> what the handler holds

vars == <<fams, bels, nextFamId, nextBelId, resp, districtBound, pending>>

\* ---------------------------------------------------------------- bounds
\* Spec: Families, Believers ever created, and the latest date
MaxFamilies  == 1
MaxBelievers == 2
MaxClock     == 1
\* SpecSpouse: Families and Believers ever created
SpouseFamilies  == 1
SpouseBelievers == 3
\* SpecCodes: Families (each with its head) ever created, and the latest date
CodeFamilies == 2
CodeClock    == 2
\* SpecTrash: Families, Believers ever created, and the latest date
TrashFamilies  == 2
TrashBelievers == 3
TrashClock     == 2
\* SpecRace: Families (each with its head) ever created, and the latest date
RaceFamilies == 2
RaceClock    == 2

\* ------------------------------------------------------------- constants
null     == 0
AdultAge == 18
ChildAge == 5

Ages            == {15, 25}
SpouseRelations == {"Wife", "Husband"}
Relations       == {"Self", "Son"} \cup SpouseRelations
MaritalStatuses == {"Single", "Married"}
Occupations     == {"Child", "Student", "Employed"}
ExtName         == MaxBelievers + SpouseBelievers + 1

\* ------------------------------------------------------------ the store
\* Family.countDocuments({ isDeleted: false })
CountActive(fs) == Cardinality({f \in DOMAIN fs : ~fs[f].isDeleted})

\* faulty variant: the collection has no unique index on familyCode
noUniqueIndex(fs, code, self) == FALSE

\* the unique sparse index { familyCode: 1 }: would saving `code` on document
\* `self` collide with another document's code
DuplicateKey(fs, code, self) ==
    /\ code # null
    /\ \E g \in DOMAIN fs \ {self} : fs[g].familyCode = code

\* Model.findOne({ _id: id, isDeleted: false }) finds a document
active(coll, id) == id \in DOMAIN coll /\ ~coll[id].isDeleted

\* Model.findOne({ _id: id, isDeleted: true }) finds a document
trashed(coll, id) == id \in DOMAIN coll /\ coll[id].isDeleted

\* Believer.findByIdAndUpdate(id, fields): no document, no write
findByIdAndUpdate(bs, id, fields) ==
    IF id \in DOMAIN bs THEN [bs EXCEPT ![id] = fields @@ bs[id]] ELSE bs

\* collection.insert: the collection with document `doc` stored under `id`
insert(coll, id, doc) == (id :> doc) @@ coll

\* collection.deleteMany: the collection without the documents in `ids`
remove(coll, ids) == [i \in DOMAIN coll \ ids |-> coll[i]]

fullName(b) == b

Response(op, status, code) == [op |-> op, status |-> status, code |-> code]

\* a handler that answers without writing
Reject(op, status, code) ==
    /\ resp' = Response(op, status, code)
    /\ UNCHANGED <<fams, bels, nextFamId, nextBelId, districtBound>>

\* ---------------------------------------------------------- createFamily
\* the Family document Family.create stores: the address, village and district sent
\* (value 1; a later update sends 2) and the default familyStatus
familyDoc(code, headId) ==
    [ familyCode |-> code, address |-> 1, village |-> 1, district |-> 1,
      familyStatus |-> "Active", headId |-> headId, isDeleted |-> FALSE, deletedAt |-> 0 ]

\* resolveOccupation(age, provided), with the occupation the handlers require
resolveOccupation(age, provided) == IF age <= ChildAge THEN "Child" ELSE provided

\* the educationLevel createFamily and addMember put on the document they build
educationLevelOf(data) ==
    IF data.occupationCategory = "Student" /\ data.educationLevel \notin {"none", ""}
    THEN data.educationLevel ELSE "none"

\* baptized === 'Yes' ? baptizedDate : null
baptizedDateOf(data) == IF data.baptized = "Yes" THEN data.baptizedDate ELSE 0

\* the head document createFamily builds (headData)
headData(fid, req) ==
    LET maritalStatus == IF req.age < AdultAge THEN "Single" ELSE req.maritalStatus
    IN  [ familyId           |-> fid,
          isHead             |-> TRUE,
          relationshipToHead |-> "Self",
          age                |-> req.age,
          maritalStatus      |-> maritalStatus,
          spouseId           |-> null,
          spouseName         |-> IF maritalStatus = "Married" THEN req.spouseName ELSE 0,
          weddingDate        |-> IF maritalStatus = "Married" THEN req.weddingDate ELSE FALSE,
          baptized           |-> req.baptized,
          baptizedDate       |-> baptizedDateOf(req),
          occupationCategory |-> resolveOccupation(req.age, req.occupationCategory),
          educationLevel     |-> educationLevelOf(req),
          isDeleted          |-> FALSE,
          deletedAt          |-> 0 ]

\* faulty variant: no transaction, what was written before the failure stays
keepWrites(before, staged) == staged

\* session.abortTransaction(): the store is what it was when the transaction started
abortTransaction(before, staged) == before

createFamily(req) ==
    LET fid  == nextFamId
        hid  == nextBelId
        code == CountActive(fams) + 1
        \* the store after Family.create, when Believer.create throws
        before == [ fams |-> fams, nextFamId |-> fid ]
        staged == [ fams |-> insert(fams, fid, familyDoc(code, null)),
                    nextFamId |-> fid + 1 ]
    IN
    IF ~req.addressOk THEN Reject("createFamily", 400, "")
    ELSE IF ~districtBound THEN Reject("createFamily", 500, "")
    ELSE IF ~req.districtOk \/ ~req.headOk THEN Reject("createFamily", 400, "")
    ELSE IF DuplicateKey(fams, code, fid) THEN Reject("createFamily", 500, "")
    ELSE IF ~req.schemaOk
         THEN /\ fams' = abortTransaction(before, staged).fams
              /\ nextFamId' = abortTransaction(before, staged).nextFamId
              /\ resp' = Response("createFamily", 500, "")
              /\ UNCHANGED <<bels, nextBelId, districtBound>>
    ELSE /\ fams' = insert(fams, fid, familyDoc(code, hid))
         /\ bels' = insert(bels, hid, headData(fid, req))
         /\ nextFamId' = fid + 1
         /\ nextBelId' = hid + 1
         /\ resp' = Response("createFamily", 201, "")
         /\ UNCHANGED districtBound

\* ---------------------------------------------------------- updateFamily
FamilyFields == {"address", "village", "district", "familyStatus"}

\* the update document `upd`: the new value of each key the body carries
updValue(key) == IF key = "familyStatus" THEN "Inactive" ELSE 2

\* findOneAndUpdate's $set of upd on a Family document
applyFamilyUpdate(doc, has) ==
    [k \in DOMAIN doc |-> IF k \in has THEN updValue(k) ELSE doc[k]]

\* a body is the set of keys it carries and whether its district is in the list; the
\* handler reads `district`, which its destructuring never binds, before any lookup
updateFamily(fid, body) ==
    IF ~districtBound THEN Reject("updateFamily", 500, "")
    ELSE IF "district" \in body.has /\ ~body.districtOk THEN Reject("updateFamily", 400, "")
    ELSE IF ~active(fams, fid) THEN Reject("updateFamily", 404, "")
    ELSE /\ fams' = [fams EXCEPT ![fid] = applyFamilyUpdate(@, body.has)]
         /\ resp' = Response("updateFamily", 200, "")
         /\ UNCHANGED <<bels, nextFamId, nextBelId, districtBound>>

\* new Date(): later than every deletedAt stored
newDate ==
    LET stored == {fams[f].deletedAt : f \in DOMAIN fams} \cup
                  {bels[b].deletedAt : b \in DOMAIN bels} \cup {0}
    IN  1 + CHOOSE t \in stored : \A u \in stored : u <= t

\* ---------------------------------------------------------- deleteFamily
\* familySchema.pre('save'): a document saved with isDeleted newly set loses its code
preSaveCode(doc, isDeletedModified) ==
    IF isDeletedModified /\ doc.isDeleted /\ doc.familyCode # null THEN null ELSE doc.familyCode

\* faulty variant: the filter leaves out isDeleted: false and restamps the trashed too
cascadeDeleteAll(bs, fid, now) ==
    [b \in DOMAIN bs |->
        IF bs[b].familyId = fid
        THEN [bs[b] EXCEPT !.isDeleted = TRUE, !.deletedAt = now]
        ELSE bs[b]]

\* Believer.updateMany({ familyId, isDeleted: false }, { isDeleted: true, deletedAt: now })
cascadeDelete(bs, fid, now) ==
    [b \in DOMAIN bs |->
        IF bs[b].familyId = fid /\ ~bs[b].isDeleted
        THEN [bs[b] EXCEPT !.isDeleted = TRUE, !.deletedAt = now]
        ELSE bs[b]]

\* the two writes of deleteFamily at time `now`: the Family, then its Believers
deleteFamilyStore(fs, bs, fid, now) ==
    LET saved == [fs[fid] EXCEPT !.isDeleted = TRUE, !.deletedAt = now]
    IN  [ fams |-> [fs EXCEPT ![fid] = [saved EXCEPT !.familyCode = preSaveCode(saved, TRUE)]],
          bels |-> cascadeDelete(bs, fid, now) ]

deleteFamily(fid) ==
    IF ~active(fams, fid)
    THEN Reject("deleteFamily", 404, "")
    ELSE LET after == deleteFamilyStore(fams, bels, fid, newDate)
         IN  /\ fams' = after.fams
             /\ bels' = after.bels
             /\ resp' = Response("deleteFamily", 200, "")
             /\ UNCHANGED <<nextFamId, nextBelId, districtBound>>

\* --------------------------------------------------------- restoreFamily
\* faulty variant: the update leaves out $unset deletedAt
cascadeRestoreFlag(bs, fid) ==
    [b \in DOMAIN bs |->
        IF bs[b].familyId = fid /\ bs[b].isDeleted
        THEN [bs[b] EXCEPT !.isDeleted = FALSE]
        ELSE bs[b]]

\* Believer.updateMany({ familyId, isDeleted: true }, { isDeleted: false, $unset deletedAt })
cascadeRestore(bs, fid) ==
    [b \in DOMAIN bs |->
        IF bs[b].familyId = fid /\ bs[b].isDeleted
        THEN [bs[b] EXCEPT !.isDeleted = FALSE, !.deletedAt = 0]
        ELSE bs[b]]

\* the code restoreFamily assigns: FAM-(count of non-deleted families + 1)
newFamilyCode(fs) == CountActive(fs) + 1

\* restoreFamily on a trashed Family: family.save() fails on the unique index and
\* nothing is written, or the Family and then its Believers are written
restoreFamilyStore(fs, bs, fid) ==
    IF DuplicateKey(fs, newFamilyCode(fs), fid)
    THEN [ status |-> 500, fams |-> fs, bels |-> bs ]
    ELSE [ status |-> 200,
           fams |-> [fs EXCEPT ![fid] = [@ EXCEPT !.isDeleted = FALSE, !.deletedAt = 0,
                                                  !.familyCode = newFamilyCode(fs)]],
           bels |-> cascadeRestore(bs, fid) ]

restoreFamily(fid) ==
    IF ~trashed(fams, fid)
    THEN Reject("restoreFamily", 404, "")
    ELSE LET after == restoreFamilyStore(fams, bels, fid)
         IN  /\ fams' = after.fams
             /\ bels' = after.bels
             /\ resp' = Response("restoreFamily", after.status, "")
             /\ UNCHANGED <<nextFamId, nextBelId, districtBound>>

\* ------------------------------------------------- permanentDeleteFamily
\* faulty variant: the deleteMany matches no Believer
noMembers(bs, fid) == {}

\* the Believers Believer.deleteMany({ familyId }) matches
familyMembers(bs, fid) == {b \in DOMAIN bs : bs[b].familyId = fid}

permanentDeleteFamily(fid) ==
    IF ~trashed(fams, fid)
    THEN Reject("permanentDeleteFamily", 404, "")
    ELSE /\ bels' = remove(bels, familyMembers(bels, fid))
         /\ fams' = remove(fams, {fid})
         /\ resp' = Response("permanentDeleteFamily", 200, "")
         /\ UNCHANGED <<nextFamId, nextBelId, districtBound>>

\* --------------------------------------------------------- assignNewHead
\* newHead.save(): Mongoose writes only the paths whose assigned value differs
\* from the value the document was loaded with
saveModified(stored, loaded, assigned) ==
    [k \in DOMAIN stored |->
        IF k \in DOMAIN assigned /\ assigned[k] # loaded[k] THEN assigned[k] ELSE stored[k]]

assignNewHead(fid, newHeadId) ==
    IF newHeadId = null THEN Reject("assignNewHead", 400, "")
    ELSE IF ~active(fams, fid)
    THEN Reject("assignNewHead", 404, "")
    ELSE IF ~(active(bels, newHeadId) /\ bels[newHeadId].familyId = fid)
    THEN Reject("assignNewHead", 404, "")
    ELSE LET newHead == bels[newHeadId]
             demoted == IF fams[fid].headId # null
                        THEN findByIdAndUpdate(bels, fams[fid].headId, [isHead |-> FALSE])
                        ELSE bels
         IN  /\ bels' = [demoted EXCEPT ![newHeadId] =
                            saveModified(demoted[newHeadId], newHead,
                                         [isHead |-> TRUE, relationshipToHead |-> "Self"])]
             /\ fams' = [fams EXCEPT ![fid].headId = newHeadId]
             /\ resp' = Response("assignNewHead", 200, "")
             /\ UNCHANGED <<nextFamId, nextBelId, districtBound>>

\* ------------------------------------------------------------- addMember
\* req.fieldsOk: fullName, dob, gender, relationCustom, memberType, occupationCategory
\* and phone pass the required-field checks; maritalStatus "" is an absent field

\* the under-18 branch: force Single, drop the spouse and wedding fields
forceSingle(req) ==
    [req EXCEPT !.maritalStatus = "Single", !.spouseId = null, !.spouseName = 0,
                !.weddingDate = FALSE]

\* the member document addMember builds (memberData) from the adjusted request
memberData(fid, data, spouseId) ==
    [ familyId           |-> fid,
      isHead             |-> FALSE,
      relationshipToHead |-> data.relationshipToHead,
      age                |-> data.age,
      maritalStatus      |-> IF data.maritalStatus = "" THEN "Single" ELSE data.maritalStatus,
      spouseId           |-> spouseId,
      spouseName         |-> data.spouseName,
      weddingDate        |-> data.maritalStatus = "Married" /\ data.weddingDate,
      baptized           |-> data.baptized,
      baptizedDate       |-> baptizedDateOf(data),
      occupationCategory |-> resolveOccupation(data.age, data.occupationCategory),
      educationLevel     |-> educationLevelOf(data),
      isDeleted          |-> FALSE,
      deletedAt          |-> 0 ]

\* faulty variant: links the member to the head and leaves the head untouched
autoLinkMemberOnly(bs, mid, headId) ==
    findByIdAndUpdate(bs, mid, [spouseId |-> headId, spouseName |-> fullName(headId)])

\* the two writes that link a new Wife / Husband and the head
autoLinkSpouse(bs, mid, headId) ==
    LET head    == IF headId \in DOMAIN bs THEN fullName(headId) ELSE 0
        member  == findByIdAndUpdate(bs, mid, [spouseId |-> headId, spouseName |-> head])
    IN  findByIdAndUpdate(member, headId,
            [spouseId |-> mid, spouseName |-> fullName(mid), maritalStatus |-> "Married"])

\* faulty variant: the duplicate-spouse check never fires
neverLinkedSpouse(head) == FALSE

\* head.spouseId is set: the head already has a linked spouse
hasLinkedSpouse(head) == head.spouseId # null

addMember(fid, req) ==
    LET mid              == nextBelId
        isSpouseRelation == req.relationshipToHead \in SpouseRelations
        data  == IF req.age < AdultAge THEN forceSingle(req)
                 ELSE IF isSpouseRelation THEN [req EXCEPT !.maritalStatus = "Married"]
                 ELSE req
        headId == fams[fid].headId
        autoLinkedSpouse == isSpouseRelation /\ req.age >= AdultAge
        spouseId == IF ~autoLinkedSpouse /\ data.spouseId # null THEN data.spouseId ELSE null
        created  == insert(bels, mid, memberData(fid, data, spouseId))
    IN
    IF ~active(fams, fid)
    THEN Reject("addMember", 404, "")
    ELSE IF ~req.fieldsOk \/ req.relationshipToHead = "Self"
    THEN Reject("addMember", 400, "")
    ELSE IF req.age < AdultAge /\ isSpouseRelation
    THEN Reject("addMember", 400, "")
    ELSE IF autoLinkedSpouse /\ headId \notin DOMAIN bels
    THEN Reject("addMember", 404, "")
    ELSE IF autoLinkedSpouse /\ hasLinkedSpouse(bels[headId])
    THEN Reject("addMember", 409, "")
    ELSE IF ~isSpouseRelation /\ req.age >= AdultAge /\ data.maritalStatus = ""
    THEN Reject("addMember", 400, "")
    ELSE IF ~isSpouseRelation /\ req.age >= AdultAge /\ data.maritalStatus = "Married"
            /\ data.spouseId = null /\ data.spouseName = 0
    THEN Reject("addMember", 400, "")
    ELSE /\ bels' = IF autoLinkedSpouse THEN autoLinkSpouse(created, mid, headId)
                    ELSE IF spouseId # null
                         THEN findByIdAndUpdate(created, spouseId, [spouseId |-> mid])
                    ELSE created
         /\ nextBelId' = mid + 1
         /\ resp' = Response("addMember", 201, "")
         /\ UNCHANGED <<fams, nextFamId, districtBound>>

\* -------------------------------------------------------- updateBeliever
PatchFields == {"dob", "maritalStatus", "spouseId", "spouseName", "weddingDate",
                "baptized", "baptizedDate", "occupationCategory", "educationLevel"}

\* a request body: `has` are the keys it carries (locked: one of familyId, isHead,
\* relationshipToHead); a field it does not carry holds the value of emptyPatch

\* sanitizeUpdateData: the editable keys of the body ('' and 'null' spouseId are the
\* null of the model; an empty weddingDate is an absent key); an empty educationLevel
\* is skipped
sanitizeUpdateData(raw) ==
    [raw EXCEPT !.has = (@ \cap PatchFields) \
                        (IF raw.educationLevel = "" THEN {"educationLevel"} ELSE {})]

\* the under-18 rule of updateBeliever on the sanitized update
minorRule(updateData, age) ==
    IF age < AdultAge
    THEN [updateData EXCEPT !.has = (@ \cup {"maritalStatus", "spouseId"}) \ {"weddingDate"},
                            !.maritalStatus = "Single", !.spouseId = null]
    ELSE updateData

\* updateData.baptized === 'No' sets updateData.baptizedDate = null
baptismRule(updateData) ==
    IF "baptized" \in updateData.has /\ updateData.baptized = "No"
    THEN [updateData EXCEPT !.has = @ \cup {"baptizedDate"}, !.baptizedDate = 0]
    ELSE updateData

\* findOneAndUpdate's $set of the keys of updateData on a document
applyUpdate(doc, u) ==
    [doc EXCEPT !.age           = IF "dob" \in u.has THEN u.dob ELSE @,
                !.maritalStatus = IF "maritalStatus" \in u.has THEN u.maritalStatus ELSE @,
                !.spouseId      = IF "spouseId" \in u.has THEN u.spouseId ELSE @,
                !.spouseName    = IF "spouseName" \in u.has THEN u.spouseName ELSE @,
                !.weddingDate   = IF "weddingDate" \in u.has THEN u.weddingDate ELSE @,
                !.baptized      = IF "baptized" \in u.has THEN u.baptized ELSE @,
                !.baptizedDate  = IF "baptizedDate" \in u.has THEN u.baptizedDate ELSE @,
                !.occupationCategory =
                    IF "occupationCategory" \in u.has THEN u.occupationCategory ELSE @,
                !.educationLevel =
                    IF "educationLevel" \in u.has THEN u.educationLevel ELSE @]

\* the spouse cross-reference sync after the update was written
syncSpouse(bs, id, updateData) ==
    IF "spouseId" \in updateData.has /\ updateData.spouseId # null
    THEN findByIdAndUpdate(bs, updateData.spouseId, [spouseId |-> id])
    ELSE IF "spouseId" \in updateData.has
    THEN LET old == bs[id]
         IN  IF old.spouseId # null
             THEN findByIdAndUpdate(bs, old.spouseId, [spouseId |-> null])
             ELSE bs
    ELSE bs

\* faulty variant: no key of the body is locked
noLockedFields(body) == FALSE

\* LOCKED_FIELDS.filter(f => req.body[f] !== undefined) is not empty
attemptedLocked(body) == "locked" \in body.has

updateBeliever(id, body) ==
    LET sanitized  == sanitizeUpdateData(body)
        age        == IF "dob" \in sanitized.has THEN sanitized.dob ELSE bels[id].age
        updateData == baptismRule(minorRule(sanitized, age))
    IN
    IF attemptedLocked(body) THEN Reject("updateBeliever", 400, "")
    ELSE IF "dob" \notin sanitized.has /\ id \notin DOMAIN bels
    THEN Reject("updateBeliever", 404, "")
    ELSE IF ~active(bels, id)
    THEN Reject("updateBeliever", 404, "")
    ELSE /\ bels' = syncSpouse([bels EXCEPT ![id] = applyUpdate(@, updateData)], id, updateData)
         /\ resp' = Response("updateBeliever", 200, "")
         /\ UNCHANGED <<fams, nextFamId, nextBelId, districtBound>>

\* -------------------------------------------------------- deleteBeliever
\* faulty variant: the head check never fires
noHeadGuard(believer) == FALSE

\* believer.isHead: the head is not deleted before a new head is assigned
headGuard(believer) == believer.isHead

deleteBeliever(id) ==
    IF ~active(bels, id)
    THEN Reject("deleteBeliever", 404, "")
    ELSE IF headGuard(bels[id])
    THEN Reject("deleteBeliever", 409, "IS_HEAD")
    ELSE LET now     == newDate
             moved   == [bels EXCEPT ![id].isDeleted = TRUE, ![id].deletedAt = now]
         IN  /\ bels' = IF bels[id].spouseId # null
                        THEN findByIdAndUpdate(moved, bels[id].spouseId,
                                 [spouseId |-> null, spouseName |-> fullName(id)])
                        ELSE moved
             /\ resp' = Response("deleteBeliever", 200, "")
             /\ UNCHANGED <<fams, nextFamId, nextBelId, districtBound>>

\* ------------------------------------------------------- restoreBeliever
\* faulty variant: any stored family will do, trashed or not
familyStored(fs, fid) == fid \in DOMAIN fs

\* Family.findOne({ _id: believer.familyId, isDeleted: false }) finds a document
familyNotInTrash(fs, fid) == active(fs, fid)

restoreBeliever(id) ==
    IF ~trashed(bels, id)
    THEN Reject("restoreBeliever", 404, "")
    ELSE IF ~familyNotInTrash(fams, bels[id].familyId)
    THEN Reject("restoreBeliever", 409, "")
    ELSE /\ bels' = [bels EXCEPT ![id].isDeleted = FALSE, ![id].deletedAt = 0]
         /\ resp' = Response("restoreBeliever", 200, "")
         /\ UNCHANGED <<fams, nextFamId, nextBelId, districtBound>>

\* ----------------------------------------------- permanentDeleteBeliever
permanentDeleteBeliever(id) ==
    IF ~trashed(bels, id)
    THEN Reject("permanentDeleteBeliever", 404, "")
    ELSE /\ bels' = remove(bels, {id})
         /\ resp' = Response("permanentDeleteBeliever", 200, "")
         /\ UNCHANGED <<fams, nextFamId, nextBelId, districtBound>>

\* ---------------------------------------------------- emptyBelieverTrash
emptyBelieverTrash ==
    /\ bels' = remove(bels, {b \in DOMAIN bels : bels[b].isDeleted})
    /\ resp' = Response("emptyBelieverTrash", 200, "")
    /\ UNCHANGED <<fams, nextFamId, nextBelId, districtBound>>

\* ------------------------------------------------------------------ spec
Init ==
    /\ fams = << >>
    /\ bels = << >>
    /\ nextFamId = 1
    /\ nextBelId = 1
    /\ resp = Response("none", 0, "")
    /\ districtBound \in BOOLEAN
    /\ pending = << >>

\* the store holds at most F Families and B Believers ever created and no date after T
Within(F, B, T) ==
    /\ nextFamId <= F + 1
    /\ nextBelId <= B + 1
    /\ \A f \in DOMAIN fams : fams[f].deletedAt <= T
    /\ \A b \in DOMAIN bels : bels[b].deletedAt <= T

FamilyIds   == 1..MaxFamilies
BelieverIds == 1..MaxBelievers
InBounds    == Within(MaxFamilies, MaxBelievers, MaxClock)

\* requests of the lifecycle specification: an adult single head, a son, a wife,
\* and one request for each way a handler rejects its input
validCreate == [ addressOk |-> TRUE, districtOk |-> TRUE, headOk |-> TRUE, schemaOk |-> TRUE,
                 age |-> 25, maritalStatus |-> "Single", spouseName |-> 0,
                 weddingDate |-> FALSE, baptized |-> "Yes", baptizedDate |-> 0,
                 occupationCategory |-> "Employed", educationLevel |-> "none" ]
CoreCreateRequests ==
    { validCreate, [validCreate EXCEPT !.addressOk = FALSE],
      [validCreate EXCEPT !.districtOk = FALSE], [validCreate EXCEPT !.headOk = FALSE],
      [validCreate EXCEPT !.schemaOk = FALSE] }

validAdd == [ fieldsOk |-> TRUE, relationshipToHead |-> "Son", age |-> 25,
              maritalStatus |-> "Single", spouseId |-> null, spouseName |-> 0,
              weddingDate |-> FALSE, baptized |-> "Yes", baptizedDate |-> 0,
              occupationCategory |-> "Employed", educationLevel |-> "none" ]
CoreAddRequests ==
    { validAdd, [validAdd EXCEPT !.relationshipToHead = "Wife"],
      [validAdd EXCEPT !.relationshipToHead = "Husband"],
      [validAdd EXCEPT !.relationshipToHead = "Wife", !.age = 15],
      [validAdd EXCEPT !.relationshipToHead = "Self"], [validAdd EXCEPT !.fieldsOk = FALSE] }

emptyPatch == [ has |-> {}, dob |-> 15, maritalStatus |-> "Single", spouseId |-> null,
                spouseName |-> 0, weddingDate |-> FALSE, baptized |-> "Yes",
                baptizedDate |-> 0, occupationCategory |-> "Employed",
                educationLevel |-> "none" ]
CorePatches ==
    { [emptyPatch EXCEPT !.has = {"locked"}], [emptyPatch EXCEPT !.has = {"spouseId"}] }

Next ==
    \/ \E req \in CoreCreateRequests : createFamily(req) /\ InBounds' /\ UNCHANGED pending
    \/ \E fid \in FamilyIds : deleteFamily(fid) /\ InBounds' /\ UNCHANGED pending
    \/ \E fid \in FamilyIds : restoreFamily(fid) /\ UNCHANGED pending
    \/ \E fid \in FamilyIds : permanentDeleteFamily(fid) /\ UNCHANGED pending
    \/ \E fid \in FamilyIds, b \in {null} \cup BelieverIds :
            assignNewHead(fid, b) /\ UNCHANGED pending
    \/ \E fid \in FamilyIds, req \in CoreAddRequests :
            addMember(fid, req) /\ InBounds' /\ UNCHANGED pending
    \/ \E id \in BelieverIds, body \in CorePatches :
            updateBeliever(id, body) /\ UNCHANGED pending
    \/ \E id \in BelieverIds : deleteBeliever(id) /\ InBounds' /\ UNCHANGED pending
    \/ \E id \in BelieverIds : restoreBeliever(id) /\ UNCHANGED pending
    \/ \E id \in BelieverIds : permanentDeleteBeliever(id) /\ UNCHANGED pending
    \/ emptyBelieverTrash /\ UNCHANGED pending

Spec == Init /\ [][Next]_vars

\* --------------------------------------------------- specification SpecSpouse
\* createFamily, addMember and updateBeliever under the marital inputs: heads and
\* members of both ages and marital statuses, the first Believer named as spouse

\* valid createFamily requests: a head of either age, Single or Married
SpouseCreateRequests ==
    { [validCreate EXCEPT !.age = a, !.maritalStatus = m,
                          !.spouseName = IF m = "Married" THEN ExtName ELSE 0,
                          !.weddingDate = (m = "Married")] :
        a \in Ages, m \in MaritalStatuses }

\* requests that pass the field checks: a Wife / Husband carries no maritalStatus or
\* spouseId (the handler sets both); a Son is Single, or Married to the first Believer
SpouseAddRequests ==
    { [validAdd EXCEPT !.relationshipToHead = r, !.age = a, !.maritalStatus = ""] :
        r \in SpouseRelations, a \in Ages }
    \cup { [validAdd EXCEPT !.age = a] : a \in Ages }
    \cup { [validAdd EXCEPT !.age = a, !.maritalStatus = "Married", !.spouseId = 1] :
        a \in Ages }

\* a patch carries one of dob, maritalStatus, spouseId (null or the first Believer)
SpousePatches ==
    { [emptyPatch EXCEPT !.has = {"dob"}, !.dob = a] : a \in Ages }
    \cup { [emptyPatch EXCEPT !.has = {"maritalStatus"}, !.maritalStatus = m] :
        m \in MaritalStatuses }
    \cup { [emptyPatch EXCEPT !.has = {"spouseId"}, !.spouseId = b] : b \in {null, 1} }

SpouseInBounds == Within(SpouseFamilies, SpouseBelievers, 0)

\* a spouseId sent is null or the id of a stored Believer
Stored(id) == id = null \/ id \in DOMAIN bels

NextSpouse ==
    \/ \E req \in SpouseCreateRequests :
            createFamily(req) /\ SpouseInBounds' /\ UNCHANGED pending
    \/ \E fid \in 1..SpouseFamilies, req \in SpouseAddRequests :
            Stored(req.spouseId) /\ addMember(fid, req) /\ SpouseInBounds' /\ UNCHANGED pending
    \/ \E id \in 1..SpouseBelievers, body \in SpousePatches :
            Stored(body.spouseId) /\ updateBeliever(id, body) /\ UNCHANGED pending

SpecSpouse == Init /\ [][NextSpouse]_vars

\* ------------------------------------------------------ specification SpecAdd
\* the marriage requests of SpecSpouse and deleteBeliever, with the bounds of Spec
NextAdd ==
    \/ \E req \in SpouseCreateRequests :
            createFamily(req) /\ InBounds' /\ UNCHANGED pending
    \/ \E fid \in FamilyIds, req \in SpouseAddRequests :
            Stored(req.spouseId) /\ addMember(fid, req) /\ InBounds' /\ UNCHANGED pending
    \/ \E id \in BelieverIds, body \in SpousePatches :
            Stored(body.spouseId) /\ updateBeliever(id, body) /\ UNCHANGED pending
    \/ \E id \in BelieverIds : deleteBeliever(id) /\ InBounds' /\ UNCHANGED pending

SpecAdd == Init /\ [][NextAdd]_vars

\* ---------------------------------------------------- specification SpecCodes
\* the family lifecycle over several families, each with its head only
CodeIds      == 1..CodeFamilies
CodeInBounds == Within(CodeFamilies, CodeFamilies, CodeClock)

NextCodes ==
    \/ \E req \in CoreCreateRequests :
            createFamily(req) /\ CodeInBounds' /\ UNCHANGED pending
    \/ \E fid \in CodeIds : deleteFamily(fid) /\ CodeInBounds' /\ UNCHANGED pending
    \/ \E fid \in CodeIds : restoreFamily(fid) /\ UNCHANGED pending
    \/ \E fid \in CodeIds : permanentDeleteFamily(fid) /\ UNCHANGED pending

SpecCodes == Init /\ [][NextCodes]_vars

\* ----------------------------------------------------------------- SpecRace
\* createFamily, deleteFamily and restoreFamily with requests in flight: each handler
\* is cut at its awaits, between what it reads and what it saves
RaceIds      == 1..RaceFamilies
\* two clients, each with at most one request in flight
RaceSlots    == {"r1", "r2"}
RaceInBounds == Within(RaceFamilies, RaceFamilies, RaceClock)

noFamily == familyDoc(null, null)

\* a request entering its handler holds what it has read so far
Await(slot, op, fid, loaded, code) ==
    /\ slot \notin DOMAIN pending
    /\ pending' = insert(pending, slot,
                          [ op |-> op, fid |-> fid, loaded |-> loaded, code |-> code ])

InFlight(slot, op) == slot \in DOMAIN pending /\ pending[slot].op = op

\* pre('save') of a new Family: countDocuments({ isDeleted: false })
createFamilyCount(slot) ==
    /\ districtBound
    /\ Await(slot, "createFamily", null, noFamily, CountActive(fams) + 1)
    /\ UNCHANGED <<fams, bels, nextFamId, nextBelId, resp, districtBound>>

\* the insert of the Family with the code counted, then the head and headId
createFamilySave(slot) ==
    /\ InFlight(slot, "createFamily")
    /\ pending' = remove(pending, {slot})
    /\ IF DuplicateKey(fams, pending[slot].code, nextFamId)
       THEN Reject("createFamily", 500, "")
       ELSE /\ fams' = insert(fams, nextFamId, familyDoc(pending[slot].code, nextBelId))
            /\ bels' = insert(bels, nextBelId, headData(nextFamId, validCreate))
            /\ nextFamId' = nextFamId + 1
            /\ nextBelId' = nextBelId + 1
            /\ resp' = Response("createFamily", 201, "")
            /\ UNCHANGED districtBound

\* Family.findOne({ _id, isDeleted: false })
deleteFamilyLoad(slot, fid) ==
    IF ~active(fams, fid)
    THEN Reject("deleteFamily", 404, "") /\ UNCHANGED pending
    ELSE /\ Await(slot, "deleteFamily", fid, fams[fid], null)
         /\ UNCHANGED <<fams, bels, nextFamId, nextBelId, resp, districtBound>>

\* family.save() of the loaded document, then the cascade
deleteFamilySave(slot) ==
    /\ InFlight(slot, "deleteFamily")
    /\ pending' = remove(pending, {slot})
    /\ LET fid      == pending[slot].fid
           loaded   == pending[slot].loaded
           now      == newDate
           set      == [loaded EXCEPT !.isDeleted = TRUE, !.deletedAt = now]
           assigned == [set EXCEPT !.familyCode = preSaveCode(set, TRUE)]
       IN  /\ fams' = [fams EXCEPT ![fid] = saveModified(fams[fid], loaded, assigned)]
           /\ bels' = cascadeDelete(bels, fid, now)
           /\ resp' = Response("deleteFamily", 200, "")
           /\ UNCHANGED <<nextFamId, nextBelId, districtBound>>

\* Family.findOne({ _id, isDeleted: true })
restoreFamilyLoad(slot, fid) ==
    IF ~trashed(fams, fid)
    THEN Reject("restoreFamily", 404, "") /\ UNCHANGED pending
    ELSE /\ Await(slot, "restoreFamily", fid, fams[fid], null)
         /\ UNCHANGED <<fams, bels, nextFamId, nextBelId, resp, districtBound>>

\* Family.countDocuments({ isDeleted: false }) of restoreFamily
restoreFamilyCount(slot) ==
    /\ InFlight(slot, "restoreFamily")
    /\ pending[slot].code = null
    /\ pending' = [pending EXCEPT ![slot].code = newFamilyCode(fams)]
    /\ UNCHANGED <<fams, bels, nextFamId, nextBelId, resp, districtBound>>

\* family.save() of the loaded document with the code counted, then the cascade
restoreFamilySave(slot) ==
    /\ InFlight(slot, "restoreFamily")
    /\ pending[slot].code # null
    /\ pending' = remove(pending, {slot})
    /\ LET fid      == pending[slot].fid
           loaded   == pending[slot].loaded
           assigned == [loaded EXCEPT !.isDeleted = FALSE, !.deletedAt = 0,
                                      !.familyCode = pending[slot].code]
       IN  IF DuplicateKey(fams, assigned.familyCode, fid)
           THEN Reject("restoreFamily", 500, "")
           ELSE /\ fams' = [fams EXCEPT ![fid] = saveModified(fams[fid], loaded, assigned)]
                /\ bels' = cascadeRestore(bels, fid)
                /\ resp' = Response("restoreFamily", 200, "")
                /\ UNCHANGED <<nextFamId, nextBelId, districtBound>>

NextRace ==
    \/ \E slot \in RaceSlots : createFamilyCount(slot)
    \/ \E slot \in RaceSlots : createFamilySave(slot) /\ RaceInBounds'
    \/ \E slot \in RaceSlots, fid \in RaceIds : deleteFamilyLoad(slot, fid)
    \/ \E slot \in RaceSlots : deleteFamilySave(slot) /\ RaceInBounds'
    \/ \E slot \in RaceSlots, fid \in RaceIds : restoreFamilyLoad(slot, fid)
    \/ \E slot \in RaceSlots : restoreFamilyCount(slot)
    \/ \E slot \in RaceSlots : restoreFamilySave(slot)

SpecRace == Init /\ [][NextRace]_vars

\* ----------------------------------------------------------------- SpecHead
\* one family's members, their patches and the change of head, with the bounds of Spec
NextHead ==
    \/ createFamily(validCreate) /\ InBounds' /\ UNCHANGED pending
    \/ \E fid \in FamilyIds, req \in CoreAddRequests :
            addMember(fid, req) /\ InBounds' /\ UNCHANGED pending
    \/ \E fid \in FamilyIds, b \in {null} \cup BelieverIds :
            assignNewHead(fid, b) /\ UNCHANGED pending
    \/ \E id \in BelieverIds, body \in CorePatches :
            updateBeliever(id, body) /\ UNCHANGED pending
    \/ \E id \in BelieverIds : deleteBeliever(id) /\ InBounds' /\ UNCHANGED pending
    \/ \E id \in BelieverIds : restoreBeliever(id) /\ UNCHANGED pending

SpecHead == Init /\ [][NextHead]_vars

\* ------------------------------------------------------------------ SpecWed
\* addMember of a Wife or Husband with requests in flight: the handler is cut between
\* its reads (the Family, the head and the head's spouseId) and its writes (the member,
\* then the two links), with the bounds of SpecSpouse
WedRequests == { [validAdd EXCEPT !.relationshipToHead = r, !.maritalStatus = ""] :
                     r \in SpouseRelations }

\* Family.findOne, Believer.findById(family.headId) and the test of head.spouseId
addMemberCheck(slot, fid, req) ==
    IF ~active(fams, fid)
    THEN Reject("addMember", 404, "") /\ UNCHANGED pending
    ELSE IF fams[fid].headId \notin DOMAIN bels
    THEN Reject("addMember", 404, "") /\ UNCHANGED pending
    ELSE IF hasLinkedSpouse(bels[fams[fid].headId])
    THEN Reject("addMember", 409, "") /\ UNCHANGED pending
    ELSE /\ slot \notin DOMAIN pending
         /\ pending' = insert(pending, slot, [ op |-> "addMember", fid |-> fid,
                                               headId |-> fams[fid].headId, req |-> req ])
         /\ UNCHANGED <<fams, bels, nextFamId, nextBelId, resp, districtBound>>

\* Believer.create(memberData), then the two updates that link member and head
addMemberWrite(slot) ==
    /\ InFlight(slot, "addMember")
    /\ pending' = remove(pending, {slot})
    /\ LET p       == pending[slot]
           data    == [p.req EXCEPT !.maritalStatus = "Married"]
           created == insert(bels, nextBelId, memberData(p.fid, data, null))
       IN  /\ bels' = autoLinkSpouse(created, nextBelId, p.headId)
           /\ nextBelId' = nextBelId + 1
           /\ resp' = Response("addMember", 201, "")
           /\ UNCHANGED <<fams, nextFamId, districtBound>>

NextWed ==
    \/ \E req \in SpouseCreateRequests :
            createFamily(req) /\ SpouseInBounds' /\ UNCHANGED pending
    \/ \E slot \in RaceSlots, fid \in 1..SpouseFamilies, req \in WedRequests :
            addMemberCheck(slot, fid, req)
    \/ \E slot \in RaceSlots : addMemberWrite(slot) /\ SpouseInBounds'

SpecWed == Init /\ [][NextWed]_vars

\* --------------------------------------------------------------- SpecUpdate
\* families created, updated, trashed and restored, with the bounds of SpecCodes
FamilyPatches ==
    { [ has |-> h, districtOk |-> TRUE ] : h \in SUBSET FamilyFields }
    \cup { [ has |-> {"district"}, districtOk |-> FALSE ] }

NextUpdate ==
    \/ createFamily(validCreate) /\ CodeInBounds' /\ UNCHANGED pending
    \/ \E fid \in CodeIds, body \in FamilyPatches :
            updateFamily(fid, body) /\ UNCHANGED pending
    \/ \E fid \in CodeIds : deleteFamily(fid) /\ CodeInBounds' /\ UNCHANGED pending
    \/ \E fid \in CodeIds : restoreFamily(fid) /\ UNCHANGED pending

SpecUpdate == Init /\ [][NextUpdate]_vars

\* -------------------------------------------------------------- SpecProfile
\* the personal fields: small children, students, the baptized and the not baptized,
\* created and then patched one field at a time, with the bounds of Spec
ProfileAges == {3, 25}

ProfileCreateRequests ==
    { [validCreate EXCEPT !.age = a, !.occupationCategory = o, !.educationLevel = e] :
          a \in ProfileAges, o \in {"Student", "Employed"}, e \in {"none", "School"} }
    \cup { [validCreate EXCEPT !.baptized = b, !.baptizedDate = d] :
              b \in {"Yes", "No"}, d \in {0, 1} }

ProfileAddRequests ==
    { [validAdd EXCEPT !.age = a, !.occupationCategory = o, !.educationLevel = e] :
          a \in ProfileAges, o \in {"Student", "Employed"}, e \in {"none", "School"} }
    \cup { [validAdd EXCEPT !.baptized = b, !.baptizedDate = d] :
              b \in {"Yes", "No"}, d \in {0, 1} }

ProfilePatches ==
    { [emptyPatch EXCEPT !.has = {"dob"}, !.dob = a] : a \in ProfileAges }
    \cup { [emptyPatch EXCEPT !.has = {"occupationCategory"}, !.occupationCategory = o] :
              o \in Occupations }
    \cup { [emptyPatch EXCEPT !.has = {"educationLevel"}, !.educationLevel = e] :
              e \in {"", "none", "School"} }
    \cup { [emptyPatch EXCEPT !.has = {"baptized"}, !.baptized = b] : b \in {"Yes", "No"} }
    \cup { [emptyPatch EXCEPT !.has = {"baptizedDate"}, !.baptizedDate = d] : d \in {0, 1} }

NextProfile ==
    \/ \E req \in ProfileCreateRequests :
            createFamily(req) /\ InBounds' /\ UNCHANGED pending
    \/ \E fid \in FamilyIds, req \in ProfileAddRequests :
            addMember(fid, req) /\ InBounds' /\ UNCHANGED pending
    \/ \E id \in BelieverIds, body \in ProfilePatches :
            updateBeliever(id, body) /\ UNCHANGED pending

SpecProfile == Init /\ [][NextProfile]_vars

\* ---------------------------------------------------------------- SpecTrash
\* the trash: valid families with sons, moved to the trash and back one by one or
\* with their family
TrashIds         == 1..TrashFamilies
TrashBelieverIds == 1..TrashBelievers
TrashInBounds    == Within(TrashFamilies, TrashBelievers, TrashClock)

NextTrash ==
    \/ createFamily(validCreate) /\ TrashInBounds' /\ UNCHANGED pending
    \/ \E fid \in TrashIds :
            addMember(fid, validAdd) /\ TrashInBounds' /\ UNCHANGED pending
    \/ \E fid \in TrashIds : deleteFamily(fid) /\ TrashInBounds' /\ UNCHANGED pending
    \/ \E fid \in TrashIds : restoreFamily(fid) /\ UNCHANGED pending
    \/ \E id \in TrashBelieverIds :
            deleteBeliever(id) /\ TrashInBounds' /\ UNCHANGED pending
    \/ \E id \in TrashBelieverIds : restoreBeliever(id) /\ UNCHANGED pending

SpecTrash == Init /\ [][NextTrash]_vars

\* ---------------------------------------------------------------- SpecPurge
\* the trash of SpecTrash with the permanent deletions
NextPurge ==
    \/ NextTrash
    \/ \E fid \in TrashIds : permanentDeleteFamily(fid) /\ UNCHANGED pending
    \/ \E id \in TrashBelieverIds : permanentDeleteBeliever(id) /\ UNCHANGED pending
    \/ emptyBelieverTrash /\ UNCHANGED pending

SpecPurge == Init /\ [][NextPurge]_vars

\* ================================================================ claims
\* the Believers stored as head of family f
HeadsOf(f) == {b \in DOMAIN bels : bels[b].isHead /\ bels[b].familyId = f}

\* the Believer created by the last successful insert
lastBeliever == nextBelId - 1

C4_SpouseSymmetryOnAdd ==
    (/\ resp = Response("addMember", 201, "")
     /\ bels[lastBeliever].relationshipToHead \in SpouseRelations) =>
        LET m == lastBeliever
            h == fams[bels[m].familyId].headId
        IN  /\ h \in DOMAIN bels
            /\ bels[m].spouseId = h
            /\ bels[h].spouseId = m
            /\ bels[h].maritalStatus = "Married"

C4_Witness ==
    /\ resp = Response("addMember", 201, "")
    /\ bels[lastBeliever].relationshipToHead = "Husband"
    /\ bels[lastBeliever].spouseId = fams[bels[lastBeliever].familyId].headId
    /\ bels[bels[lastBeliever].spouseId].spouseId = lastBeliever

\* the head of family f is stored and has a spouseId
HeadHasSpouse(f) ==
    /\ active(fams, f)
    /\ fams[f].headId \in DOMAIN bels
    /\ bels[fams[f].headId].spouseId # null

\* C5: an addMember request that passes the field checks, with relationshipToHead Wife
\* or Husband and age >= 18, on a non-deleted family whose head has a spouseId, is
\* answered 409 and writes nothing: no Believer is inserted and no Believer or Family
\* changes.
C5_DuplicateSpouseRejected ==
    [][\A f \in FamilyIds :
          HeadHasSpouse(f) =>
              \A req \in SpouseAddRequests :
                  (/\ req.relationshipToHead \in SpouseRelations
                   /\ req.age >= AdultAge
                   /\ addMember(f, req)) =>
                      /\ resp' = Response("addMember", 409, "")
                      /\ UNCHANGED <<fams, bels, nextBelId>>]_vars

C5_Witness ==
    /\ resp = Response("addMember", 409, "")
    /\ \E f \in DOMAIN fams : HeadHasSpouse(f)

C8_HeadDeleteRejected ==
    [][\A id \in BelieverIds :
          (active(bels, id) /\ bels[id].isHead /\ deleteBeliever(id)) =>
              /\ resp' = Response("deleteBeliever", 409, "IS_HEAD")
              /\ UNCHANGED <<fams, bels>>]_vars

C8_Witness ==
    /\ resp = Response("deleteBeliever", 409, "IS_HEAD")
    /\ \E b \in DOMAIN bels :
          /\ bels[b].isHead /\ ~bels[b].isDeleted
          /\ active(bels, bels[b].spouseId)
          /\ bels[bels[b].spouseId].spouseId = b

\* C9: restoreBeliever on a trashed Believer whose Family is trashed is answered 409 and
\* leaves every Believer (its isDeleted and deletedAt too) and every Family as it was, at
\* every attempt; on a Believer that is not trashed it is answered 404 and changes nothing.
C9_RestoreBlocked ==
    [][\A id \in TrashBelieverIds :
          restoreBeliever(id) =>
              /\ (trashed(bels, id) /\ trashed(fams, bels[id].familyId)) =>
                    /\ resp' = Response("restoreBeliever", 409, "")
                    /\ UNCHANGED <<fams, bels>>
              /\ ~trashed(bels, id) =>
                    /\ resp' = Response("restoreBeliever", 404, "")
                    /\ UNCHANGED <<fams, bels>>]_vars

C9_Witness ==
    /\ resp = Response("restoreBeliever", 409, "")
    /\ \E b \in DOMAIN bels :
          /\ bels[b].isDeleted /\ bels[b].deletedAt # 0
          /\ trashed(fams, bels[b].familyId)

C14_CreateAtomic ==
    /\ [](/\ \A f \in DOMAIN fams : fams[f].headId # null
          /\ \A b \in DOMAIN bels : bels[b].familyId \in 1..(nextFamId - 1))
    /\ [][\A req \in CoreCreateRequests :
             (createFamily(req) /\ resp'.status # 201) =>
                 /\ fams' = fams
                 /\ bels' = bels]_vars

\* a createFamily has just failed inside its transaction, after an earlier one committed
C14_Witness ==
    /\ districtBound
    /\ resp = Response("createFamily", 500, "")
    /\ fams # << >>

\* C15: createFamily with a complete valid payload answers 201 and stores exactly one new
\* Family and one new Believer, the head: isHead, relationshipToHead 'Self', familyId the
\* new Family, and the Family's headId the new Believer.
C15_CreateSucceeds ==
    [][createFamily(validCreate) =>
          /\ resp'.status = 201
          /\ DOMAIN fams' = DOMAIN fams \cup {nextFamId}
          /\ DOMAIN bels' = DOMAIN bels \cup {nextBelId}
          /\ nextFamId \notin DOMAIN fams /\ nextBelId \notin DOMAIN bels
          /\ bels'[nextBelId].isHead
          /\ bels'[nextBelId].relationshipToHead = "Self"
          /\ bels'[nextBelId].familyId = nextFamId
          /\ fams'[nextFamId].headId = nextBelId]_vars

\* C16: createFamily with a required field missing or a district outside the list answers
\* 400 and stores nothing.
C16_CreateValidation ==
    [][\A req \in CoreCreateRequests :
          (createFamily(req) /\ (~req.addressOk \/ ~req.districtOk \/ ~req.headOk)) =>
              /\ resp'.status = 400
              /\ fams' = fams
              /\ bels' = bels]_vars

C20_TrashFlagMatchesDate ==
    /\ \A f \in DOMAIN fams : fams[f].isDeleted <=> fams[f].deletedAt # 0
    /\ \A b \in DOMAIN bels : bels[b].isDeleted <=> bels[b].deletedAt # 0

\* a family and its Believers have just come back from the trash while another family
\* and a Believer of it are still there
C20_Witness ==
    /\ resp = Response("restoreFamily", 200, "")
    /\ \E f, g \in DOMAIN fams, b, c \in DOMAIN bels :
          /\ ~fams[f].isDeleted /\ bels[b].familyId = f /\ ~bels[b].isDeleted
          /\ fams[g].isDeleted /\ bels[c].familyId = g /\ bels[c].isDeleted

\* C21: permanentDeleteFamily and permanentDeleteBeliever on a record that is not in the
\* trash answer 404 and remove nothing; permanentDeleteFamily on a trashed Family removes
\* the Family and every Believer of it, and afterwards every Believer refers to a stored
\* Family.
C21_PermanentDelete ==
    [][/\ \A fid \in TrashIds :
             permanentDeleteFamily(fid) =>
                 IF fid \in DOMAIN fams /\ fams[fid].isDeleted
                 THEN /\ resp'.status = 200
                      /\ fams' = [f \in DOMAIN fams \ {fid} |-> fams[f]]
                      /\ bels' = [b \in {c \in DOMAIN bels : bels[c].familyId # fid}
                                      |-> bels[b]]
                      /\ \A b \in DOMAIN bels' : bels'[b].familyId \in DOMAIN fams'
                 ELSE /\ resp'.status = 404
                      /\ fams' = fams /\ bels' = bels
       /\ \A id \in TrashBelieverIds :
             (permanentDeleteBeliever(id) /\ ~(id \in DOMAIN bels /\ bels[id].isDeleted)) =>
                 /\ resp'.status = 404
                 /\ fams' = fams /\ bels' = bels]_vars

\* a trashed family of two has just been removed for good beside a family that stays
C21_Witness ==
    /\ resp = Response("permanentDeleteFamily", 200, "")
    /\ nextFamId = 3 /\ Cardinality(DOMAIN fams) = 1
    /\ nextBelId = 4 /\ Cardinality(DOMAIN bels) = 1

C26_UpdateFamilyFrame ==
    [][\A fid \in CodeIds, body \in FamilyPatches :
          (body.districtOk /\ updateFamily(fid, body)) =>
              IF fid \in DOMAIN fams /\ ~fams[fid].isDeleted
              THEN /\ resp'.status = 200
                   /\ DOMAIN fams' = DOMAIN fams
                   /\ \A k \in DOMAIN fams[fid] :
                         fams'[fid][k] = IF k \in body.has THEN updValue(k) ELSE fams[fid][k]
                   /\ \A g \in DOMAIN fams \ {fid} : fams'[g] = fams[g]
                   /\ bels' = bels
              ELSE /\ resp'.status = 404
                   /\ fams' = fams /\ bels' = bels]_vars

====
